---------------------------- MODULE Spec2Model ----------------------------
(***************************************************************************)
(* Model of heredity.py: exact inference over a pedigree by enumeration of *)
(* every (have_trait, one_gene, two_genes) hypothesis, accumulation of the *)
(* joint probabilities per person and normalisation.                       *)
(*                                                                         *)
(* Numbers.  The program computes in Python floats.  Every constant of     *)
(* PROBS is a two-digit decimal, so every product and sum the program      *)
(* forms is a finite decimal; the model keeps them exactly, as             *)
(* [m |-> mantissa, e |-> exponent] standing for m / 100^e, the mantissa   *)
(* an arbitrary-precision natural (a little-endian sequence of limbs).  A  *)
(* quotient formed by normalize is kept exactly as [n |-> .., d |-> ..].   *)
(* Floating-point rounding (relative error about 1e-16) is not modelled.   *)
(*                                                                         *)
(* Persons are identified by their row number in the CSV file, so the      *)
(* insertion order of the `people` dictionary is 1, 2, ..., n.             *)
(***************************************************************************)
EXTENDS Integers, Sequences, FiniteSets

(***************************************************************************)
(* Bounds of the model.                                                    *)
(***************************************************************************)
\* Largest population (rows of the CSV file).
MaxPeople == 3
\* Largest number of persons that name a parent.
MaxChildren == 1
\* Largest bucket value drawn for normalize called on its own.
MaxBucket == 1

(***************************************************************************)
(* Arbitrary-precision naturals: little-endian limbs, no leading zero limb *)
(* (the empty sequence is 0), so that equal numbers are equal sequences.   *)
(***************************************************************************)
Base == 10^4

RECURSIVE BigFromNat(_)
BigFromNat(k) ==
    IF k = 0 THEN <<>> ELSE <<k % Base>> \o BigFromNat(k \div Base)

RECURSIVE BigAddC(_, _, _)
BigAddC(a, b, c) ==
    IF a = <<>> /\ b = <<>>
    THEN (IF c = 0 THEN <<>> ELSE <<c>>)
    ELSE LET x == IF a = <<>> THEN 0 ELSE Head(a)
             y == IF b = <<>> THEN 0 ELSE Head(b)
             s == x + y + c
         IN  <<s % Base>> \o BigAddC(IF a = <<>> THEN <<>> ELSE Tail(a),
                                      IF b = <<>> THEN <<>> ELSE Tail(b),
                                      s \div Base)

BigAdd(a, b) == BigAddC(a, b, 0)

RECURSIVE BigMulSmallC(_, _, _)
BigMulSmallC(a, k, c) ==
    IF a = <<>>
    THEN BigFromNat(c)
    ELSE LET s == Head(a) * k + c
         IN  <<s % Base>> \o BigMulSmallC(Tail(a), k, s \div Base)

\* a * k for a limb-sized k (0 <= k < Base).
BigMulSmall(a, k) == IF k = 0 \/ a = <<>> THEN <<>> ELSE BigMulSmallC(a, k, 0)

BigShift(a) == IF a = <<>> THEN <<>> ELSE <<0>> \o a

RECURSIVE BigMul(_, _)
BigMul(a, b) ==
    IF b = <<>> THEN <<>>
    ELSE BigAdd(BigMulSmall(a, Head(b)), BigShift(BigMul(a, Tail(b))))


(***************************************************************************)
(* Exact decimals m / 100^e and exact quotients n / d.                     *)
(***************************************************************************)
\* The constants of PROBS are written in hundredths.
Unit == 100

Max(x, y) == IF x >= y THEN x ELSE y

\* The decimal k / 100.
Hundredths(k) == [m |-> BigFromNat(k), e |-> 1]

\* The int 0 the accumulators start from, and the float 1.0.
Zero == [m |-> <<>>, e |-> 0]
One == [m |-> <<1>>, e |-> 0]

RECURSIVE DecAlign(_, _)
\* The same number written with exponent e >= a.e.
DecAlign(a, e) ==
    IF a.e >= e THEN a
    ELSE DecAlign([m |-> BigMulSmall(a.m, Unit), e |-> a.e + 1], e)

DecAdd(a, b) ==
    LET e == Max(a.e, b.e)
    IN  [m |-> BigAdd(DecAlign(a, e).m, DecAlign(b, e).m), e |-> e]

DecMul(a, b) == [m |-> BigMul(a.m, b.m), e |-> a.e + b.e]

DecEq(a, b) ==
    LET e == Max(a.e, b.e) IN DecAlign(a, e).m = DecAlign(b, e).m

DecIsZero(a) == a.m = <<>>

\* a / b for b # 0, kept as an exact quotient.
DecDiv(a, b) ==
    LET e == Max(a.e, b.e)
    IN  [n |-> DecAlign(a, e).m, d |-> DecAlign(b, e).m]

RatAdd(x, y) ==
    [n |-> BigAdd(BigMul(x.n, y.d), BigMul(y.n, x.d)), d |-> BigMul(x.d, y.d)]

RatEq(x, y) == BigMul(x.n, y.d) = BigMul(y.n, x.d)

\* The quotient k / j of two small naturals.
Rat(k, j) == [n |-> BigFromNat(k), d |-> BigFromNat(j)]

(***************************************************************************)
(* PROBS, in hundredths.                                                   *)
(***************************************************************************)
\* PROBS with the priors of one and of two copies exchanged.
PROBS_swapped ==
    [gene |-> [g \in 0..2 |-> CASE g = 2 -> 3 [] g = 1 -> 1 [] g = 0 -> 96],
     trait |-> [g \in 0..2 |->
                  [t \in BOOLEAN |->
                     CASE g = 2 -> (IF t THEN 65 ELSE 35)
                       [] g = 1 -> (IF t THEN 56 ELSE 44)
                       [] g = 0 -> (IF t THEN 1 ELSE 99)]],
     mutation |-> 1]

PROBS ==
    [gene |-> [g \in 0..2 |-> CASE g = 2 -> 1 [] g = 1 -> 3 [] g = 0 -> 96],
     trait |-> [g \in 0..2 |->
                  [t \in BOOLEAN |->
                     CASE g = 2 -> (IF t THEN 65 ELSE 35)
                       [] g = 1 -> (IF t THEN 56 ELSE 44)
                       [] g = 0 -> (IF t THEN 1 ELSE 99)]],
     mutation |-> 1]

(***************************************************************************)
(* load_data: the values a row can hold.                                   *)
(***************************************************************************)
\* A blank mother or father column.
None == 0
\* A mother or father column naming nobody of the file.
Stranger == -1

\* The trait column: "1", "0" or blank.
TraitValues == {"True", "False", "None"}

BoolStr(b) == IF b THEN "True" ELSE "False"

\* The keys of the dictionary, in insertion order.
Keys(people) == [i \in 1..Len(people) |-> i]

names(people) == DOMAIN people

(***************************************************************************)
(* powerset: the subsets of s, by size and, within a size, in the order    *)
(* itertools.combinations yields them.  list(s) is taken in ascending      *)
(* order; Python leaves the order of a set unspecified, and nothing below  *)
(* depends on it beyond the order of the enumeration.                      *)
(***************************************************************************)
RECURSIVE list(_)
list(s) ==
    IF s = {} THEN <<>>
    ELSE LET x == CHOOSE y \in s : \A z \in s : y <= z
         IN  <<x>> \o list(s \ {x})

Range(t) == {t[i] : i \in DOMAIN t}

RECURSIVE combinations(_, _)
combinations(l, r) ==
    IF r = 0 THEN << <<>> >>
    ELSE IF Len(l) < r THEN <<>>
    ELSE LET with == combinations(Tail(l), r - 1)
         IN  [i \in 1..Len(with) |-> <<Head(l)>> \o with[i]]
             \o combinations(Tail(l), r)

RECURSIVE chain(_, _, _)
\* combinations(l, r) followed by those of every size from r + 1 to last.
chain(l, r, last) ==
    IF r > last THEN <<>> ELSE combinations(l, r) \o chain(l, r + 1, last)

\* powerset with range(len(s)) for range(len(s) + 1): the full set is lost.
powerset_short(s) ==
    LET l == list(s)
        c == chain(l, 0, Len(l) - 1)
    IN  [i \in 1..Len(c) |-> Range(c[i])]

powerset(s) ==
    LET l == list(s)
        c == chain(l, 0, Len(l))
    IN  [i \in 1..Len(c) |-> Range(c[i])]

(***************************************************************************)
(* getGene, inherit, joint_probability, update, normalize.                 *)
(***************************************************************************)
getGene(person, one_gene, two_gene) ==
    IF person \in one_gene THEN 1 ELSE IF person \in two_gene THEN 2 ELSE 0

\* inherit with the two-copy parent answering as the zero-copy parent does.
inherit_same(parent_gene, trait) ==
    CASE parent_gene = 0 ->
           IF trait THEN Hundredths(PROBS.mutation)
           ELSE Hundredths(Unit - PROBS.mutation)
      [] parent_gene = 1 -> Hundredths(50)
      [] parent_gene = 2 ->
           IF trait THEN Hundredths(PROBS.mutation)
           ELSE Hundredths(Unit - PROBS.mutation)

inherit(parent_gene, trait) ==
    CASE parent_gene = 0 ->
           IF trait THEN Hundredths(PROBS.mutation)
           ELSE Hundredths(Unit - PROBS.mutation)
      [] parent_gene = 1 -> Hundredths(50)
      [] parent_gene = 2 ->
           IF trait THEN Hundredths(Unit - PROBS.mutation)
           ELSE Hundredths(PROBS.mutation)

\* One pass of the loop body of joint_probability: probability after person.
JointBody(people, person, one_gene, two_genes, have_trait, probability) ==
    LET mom == people[person].mother
        dad == people[person].father
        personTrait == person \in have_trait
        personGene == getGene(person, one_gene, two_genes)
        ptrait == Hundredths(PROBS.trait[personGene][personTrait])
    IN  IF dad = None /\ mom = None
        THEN DecMul(probability,
                    DecMul(ptrait, Hundredths(PROBS.gene[personGene])))
        ELSE LET mom_genes == getGene(mom, one_gene, two_genes)
                 dad_genes == getGene(dad, one_gene, two_genes)
                 t == CASE personGene = 0 ->
                             DecMul(inherit(mom_genes, FALSE),
                                    inherit(dad_genes, FALSE))
                        [] personGene = 1 ->
                             DecAdd(DecMul(inherit(mom_genes, TRUE),
                                           inherit(dad_genes, FALSE)),
                                    DecMul(inherit(mom_genes, FALSE),
                                           inherit(dad_genes, TRUE)))
                        [] personGene = 2 ->
                             DecMul(inherit(mom_genes, TRUE),
                                    inherit(dad_genes, TRUE))
             IN  DecMul(DecMul(probability, t), ptrait)

RECURSIVE JointLoop(_, _, _, _, _, _)
\* The loop of joint_probability over the persons of `order`.
JointLoop(order, people, one_gene, two_genes, have_trait, probability) ==
    IF order = <<>> THEN probability
    ELSE JointLoop(Tail(order), people, one_gene, two_genes, have_trait,
                   JointBody(people, Head(order), one_gene, two_genes,
                             have_trait, probability))

joint_probability(people, one_gene, two_genes, have_trait) ==
    JointLoop(Keys(people), people, one_gene, two_genes, have_trait, One)

\* update that forgets the False bucket of the persons without the trait.
update_true_only(probabilities, one_gene, two_genes, have_trait, p) ==
    [person \in DOMAIN probabilities |->
       LET personGene == getGene(person, one_gene, two_genes)
           old == probabilities[person]
       IN  [gene |-> [g \in 0..2 |->
                        IF g = personGene THEN DecAdd(old.gene[g], p)
                        ELSE old.gene[g]],
            trait |-> [t \in BOOLEAN |->
                         IF t /\ person \in have_trait
                         THEN DecAdd(old.trait[t], p)
                         ELSE old.trait[t]]]]

update(probabilities, one_gene, two_genes, have_trait, p) ==
    [person \in DOMAIN probabilities |->
       LET personGene == getGene(person, one_gene, two_genes)
           personTrait == person \in have_trait
           old == probabilities[person]
       IN  [gene |-> [g \in 0..2 |->
                        IF g = personGene THEN DecAdd(old.gene[g], p)
                        ELSE old.gene[g]],
            trait |-> [t \in BOOLEAN |->
                         IF t = personTrait THEN DecAdd(old.trait[t], p)
                         ELSE old.trait[t]]]]

\* two_genes ranging over powerset(names) instead of the remaining names.
two_genes_sets_all(population, one_gene) == powerset(population)

\* The sets two_genes ranges over for a given one_gene (line 78).
two_genes_sets(population, one_gene) == powerset(population \ one_gene)

\* fails_evidence testing the observation for truth instead of `is not None`:
\* an observed False is then taken for unknown.
fails_evidence_truthy(people, have_trait) ==
    \E person \in names(people) :
        /\ people[person].trait = "True"
        /\ people[person].trait # BoolStr(person \in have_trait)

\* Whether have_trait contradicts a known trait of somebody (lines 68-72).
fails_evidence(people, have_trait) ==
    \E person \in names(people) :
        /\ people[person].trait # "None"
        /\ people[person].trait # BoolStr(person \in have_trait)

\* sum_gene over two of the three buckets.
sum_gene_short(acc) == DecAdd(DecAdd(Zero, acc.gene[2]), acc.gene[1])

\* sum(probabilities[person]["gene"].values()), in the order 2, 1, 0.
sum_gene(acc) ==
    DecAdd(DecAdd(DecAdd(Zero, acc.gene[2]), acc.gene[1]), acc.gene[0])

\* sum(probabilities[person]["trait"].values()), in the order True, False.
sum_trait(acc) == DecAdd(DecAdd(Zero, acc.trait[TRUE]), acc.trait[FALSE])

\* The body of normalize's loop for one person.  r is the run so far:
\* the dictionary, the divisions attempted and the exception raised, if any.
NormBody(r, person) ==
    LET acc == r.probabilities[person]
        traits == [t \in BOOLEAN |-> DecDiv(acc.trait[t], sum_trait(acc))]
        genes == [g \in 0..2 |-> DecDiv(acc.gene[g], sum_gene(acc))]
    IN  IF r.error # "" THEN r
        ELSE IF DecIsZero(sum_trait(acc))
        THEN [r EXCEPT !.error = "ZeroDivisionError",
                       !.divisions = r.divisions + 1]
        ELSE IF DecIsZero(sum_gene(acc))
        THEN [probabilities |->
                [r.probabilities EXCEPT ![person] =
                    [gene |-> acc.gene, trait |-> traits]],
              divisions |-> r.divisions + 3,
              error |-> "ZeroDivisionError"]
        ELSE [probabilities |->
                [r.probabilities EXCEPT ![person] =
                    [gene |-> genes, trait |-> traits]],
              divisions |-> r.divisions + 5,
              error |-> ""]

RECURSIVE NormLoop(_, _)
NormLoop(order, r) ==
    IF order = <<>> THEN r
    ELSE NormLoop(Tail(order), NormBody(r, Head(order)))

\* normalize dividing by one total taken over all persons.
normalize_total(probabilities) ==
    LET r == NormLoop(Keys(probabilities),
                      [probabilities |-> probabilities, divisions |-> 0,
                       error |-> ""])
    IN  IF \A person \in DOMAIN probabilities :
              DecIsZero(sum_gene(probabilities[person]))
        THEN [probabilities |-> probabilities, divisions |-> 1,
              error |-> "ZeroDivisionError"]
        ELSE r

normalize(probabilities) ==
    NormLoop(Keys(probabilities),
             [probabilities |-> probabilities, divisions |-> 0, error |-> ""])

(***************************************************************************)
(* The run of main.                                                        *)
(***************************************************************************)
VARIABLES
    people,         \* the dictionary load_data returned
    probabilities,  \* the accumulators, then the normalised distributions
    pc,             \* "start", "trait_loop", "gene_loop", "done", "fault"
    i_trait,        \* position of have_trait in powerset(names)
    i_one,          \* position of one_gene in powerset(names)
    i_two,          \* position of two_genes in powerset(names - one_gene)
    visited,        \* the (one_gene, two_genes) pairs of this have_trait
    mass,           \* sum of the joint probabilities added so far
    evaluated,      \* number of calls of joint_probability so far
    divisions,      \* number of divisions normalize attempted
    error           \* the exception that ended the run, "" if none

vars == <<people, probabilities, pc, i_trait, i_one, i_two, visited, mass,
          evaluated, divisions, error>>

have_trait == powerset(names(people))[i_trait]
one_gene == powerset(names(people))[i_one]
two_genes == two_genes_sets(names(people), one_gene)[i_two]

\* What a mother or father column of a file of n rows can hold for row i.
ParentRefs(n, i) == {None, Stranger} \cup ((1..n) \ {i})

\* The dictionaries load_data can return for files of at most MaxPeople
\* rows of which at most MaxChildren name a parent.
Populations ==
    UNION {
      UNION {
        { [i \in 1..n |->
             [name |-> i,
              mother |-> IF i \in K THEN par[i][1] ELSE None,
              father |-> IF i \in K THEN par[i][2] ELSE None,
              trait |-> obs[i]]] :
          par \in {q \in [K -> (({None, Stranger} \cup (1..n))
                                 \X ({None, Stranger} \cup (1..n)))] :
                     \A i \in K : /\ q[i] # <<None, None>>
                                  /\ q[i][1] \in ParentRefs(n, i)
                                  /\ q[i][2] \in ParentRefs(n, i)},
          obs \in [1..n -> TraitValues] } :
        K \in {k \in SUBSET (1..n) : Cardinality(k) <= MaxChildren} } :
      n \in 0..MaxPeople }

\* The Person invariants: both parents set and resolving, or neither.
WellFormed(ppl) ==
    \A i \in names(ppl) :
        \/ ppl[i].mother = None /\ ppl[i].father = None
        \/ ppl[i].mother \in names(ppl) /\ ppl[i].father \in names(ppl)

\* The state main is in when load_data has returned ppl.
Loaded(ppl) ==
    /\ people = ppl
    /\ probabilities = <<>>
    /\ pc = "start"
    /\ i_trait = 0
    /\ i_one = 0
    /\ i_two = 0
    /\ visited = <<>>
    /\ mass = Zero
    /\ evaluated = 0
    /\ divisions = 0
    /\ error = ""

\* A file that keeps load_data's contract: mother and father both blank, or
\* both names of the file.
Init == \E ppl \in {q \in Populations : WellFormed(q)} : Loaded(ppl)

\* A file that breaks it.
InitMalformed == \E ppl \in {q \in Populations : ~WellFormed(q)} : Loaded(ppl)

\* Lines 47-64: the zeroed accumulators, and the outer loop begins.
Start ==
    /\ pc = "start"
    /\ probabilities' =
         [person \in names(people) |->
            [gene |-> [g \in 0..2 |-> Zero],
             trait |-> [t \in BOOLEAN |-> Zero]]]
    /\ pc' = "trait_loop"
    /\ i_trait' = 1
    /\ UNCHANGED <<people, i_one, i_two, visited, mass, evaluated,
                   divisions, error>>

\* Lines 65-74: a have_trait that violates known information is skipped.
SkipTrait ==
    /\ pc = "trait_loop"
    /\ i_trait <= Len(powerset(names(people)))
    /\ fails_evidence(people, have_trait)
    /\ i_trait' = i_trait + 1
    /\ UNCHANGED <<people, probabilities, pc, i_one, i_two, visited, mass,
                   evaluated, divisions, error>>

\* Lines 65-78: a have_trait that passes enters the loops over the genes.
EnterGenes ==
    /\ pc = "trait_loop"
    /\ i_trait <= Len(powerset(names(people)))
    /\ ~fails_evidence(people, have_trait)
    /\ pc' = "gene_loop"
    /\ i_one' = 1
    /\ i_two' = 1
    /\ visited' = <<>>
    /\ UNCHANGED <<people, probabilities, i_trait, mass, evaluated,
                   divisions, error>>

\* Lines 77-82: one hypothesis is evaluated and added, and the loops advance.
Step ==
    /\ pc = "gene_loop"
    /\ LET p == joint_probability(people, one_gene, two_genes, have_trait)
       IN  /\ probabilities' =
                update(probabilities, one_gene, two_genes, have_trait, p)
           /\ mass' = DecAdd(mass, p)
    /\ visited' = Append(visited, <<one_gene, two_genes>>)
    /\ evaluated' = evaluated + 1
    /\ IF i_two < Len(two_genes_sets(names(people), one_gene))
       THEN /\ i_two' = i_two + 1
            /\ UNCHANGED <<pc, i_trait, i_one>>
       ELSE IF i_one < Len(powerset(names(people)))
       THEN /\ i_one' = i_one + 1
            /\ i_two' = 1
            /\ UNCHANGED <<pc, i_trait>>
       ELSE /\ pc' = "trait_loop"
            /\ i_trait' = i_trait + 1
            /\ UNCHANGED <<i_one, i_two>>
    /\ UNCHANGED <<people, divisions, error>>

\* Line 85: normalize, which ends the run or raises.
Normalize ==
    /\ pc = "trait_loop"
    /\ i_trait > Len(powerset(names(people)))
    /\ LET r == normalize(probabilities)
       IN  /\ probabilities' = r.probabilities
           /\ divisions' = r.divisions
           /\ error' = r.error
           /\ pc' = IF r.error = "" THEN "done" ELSE "fault"
    /\ UNCHANGED <<people, i_trait, i_one, i_two, visited, mass, evaluated>>

Next == Start \/ SkipTrait \/ EnterGenes \/ Step \/ Normalize

Spec == Init /\ [][Next]_vars

SpecMalformed == InitMalformed /\ [][Next]_vars

(***************************************************************************)
(* normalize called on its own, on any dictionary of small accumulators.   *)
(***************************************************************************)
Buckets == {[m |-> BigFromNat(k), e |-> 0] : k \in 0..MaxBucket}

InitNormalize ==
    \E n \in 0..(MaxPeople - 1) :
      /\ people = [i \in 1..n |->
                     [name |-> i, mother |-> None, father |-> None,
                      trait |-> "None"]]
      /\ probabilities \in [1..n -> [gene : [0..2 -> Buckets],
                                     trait : [BOOLEAN -> Buckets]]]
      /\ pc = "trait_loop"
      /\ i_trait = Len(powerset(1..n)) + 1
      /\ i_one = 0
      /\ i_two = 0
      /\ visited = <<>>
      /\ mass = Zero
      /\ evaluated = 0
      /\ divisions = 0
      /\ error = ""

NextNormalize == Normalize

SpecNormalize == InitNormalize /\ [][NextNormalize]_vars


(***************************************************************************)
(* Properties.                                                             *)
(***************************************************************************)
PS == powerset(names(people))

\* The outer loop is over: normalize is the next statement.
AtNormalize == pc = "trait_loop" /\ i_trait > Len(PS)

\* Some person of ppl names both parents, and they are in the file.
HasChild(ppl) ==
    \E i \in names(ppl) :
        ppl[i].mother \in names(ppl) /\ ppl[i].father \in names(ppl)

GeneTotal(acc) == DecAdd(DecAdd(acc.gene[0], acc.gene[1]), acc.gene[2])
TraitTotal(acc) == DecAdd(acc.trait[TRUE], acc.trait[FALSE])

RatOne == Rat(1, 1)

\* A normalised distribution sums to 1.
SumsToOne(acc) ==
    /\ \A g \in 0..2 : acc.gene[g].d # <<>>
    /\ \A t \in BOOLEAN : acc.trait[t].d # <<>>
    /\ RatEq(RatAdd(RatAdd(acc.gene[0], acc.gene[1]), acc.gene[2]), RatOne)
    /\ RatEq(RatAdd(acc.trait[TRUE], acc.trait[FALSE]), RatOne)

\* new1 / new2 = old1 / old2, cross-multiplied: new1 * old2 = new2 * old1.
KeepsRatio(new1, new2, old1, old2) ==
    LET e == Max(old1.e, old2.e)
        o1 == DecAlign(old1, e).m
        o2 == DecAlign(old2, e).m
    IN  BigMul(BigMul(new1.n, new2.d), o2) = BigMul(BigMul(new2.n, new1.d), o1)

\* C1, on the final state: after normalize, for a pedigree that keeps the
\* Person invariants, every person's three gene probabilities sum to 1 and
\* the two trait probabilities sum to 1.
C1_Sums ==
    (pc = "done" /\ WellFormed(people)) =>
        \A person \in names(people) : SumsToOne(probabilities[person])

\* C1, on the normalising step: every normalised value keeps the ratio it had
\* to the other buckets of the same distribution.
C1_Ratios ==
    (pc' = "done" /\ pc # "done" /\ WellFormed(people)) =>
        \A person \in names(people) :
            LET old == probabilities[person]
                new == probabilities'[person]
            IN  /\ \A g1, g2 \in 0..2 :
                      KeepsRatio(new.gene[g1], new.gene[g2],
                                 old.gene[g1], old.gene[g2])
                /\ KeepsRatio(new.trait[TRUE], new.trait[FALSE],
                              old.trait[TRUE], old.trait[FALSE])

\* C1: for every run over a pedigree satisfying the Person invariants, with
\* any observed trait values, after normalize every person's gene
\* probabilities sum to 1, the trait probabilities sum to 1, and each value
\* keeps its ratio to the other buckets of its distribution.
C1_SumToOne == [] C1_Sums /\ [][C1_Ratios]_vars

\* A trio with an observed child has been normalised.
C1_Witness ==
    /\ pc = "done"
    /\ Len(people) = MaxPeople
    /\ HasChild(people)
    /\ WellFormed(people)
    /\ \E i \in names(people) : people[i].trait = "True"
    /\ \E i \in names(people) : people[i].trait = "None"

\* have_trait agrees with every known observation.
Agrees(ppl, ht) ==
    \A person \in names(ppl) :
        ppl[person].trait # "None" =>
            (ppl[person].trait = "True" <=> person \in ht)

\* C2, on every state: the hypothesis being evaluated agrees with every
\* known observation, and no mass has reached the trait bucket that
\* contradicts a person's own observation.
C2_State ==
    /\ pc = "gene_loop" => Agrees(people, have_trait)
    /\ pc \in {"trait_loop", "gene_loop"} =>
         \A person \in names(people) :
             /\ people[person].trait = "True" =>
                    DecIsZero(probabilities[person].trait[FALSE])
             /\ people[person].trait = "False" =>
                    DecIsZero(probabilities[person].trait[TRUE])

\* C2, on every step: a have_trait that disagrees with an observation adds
\* nothing to any accumulator and is not evaluated.
C2_Step ==
    (pc = "trait_loop" /\ i_trait <= Len(PS) /\ ~Agrees(people, have_trait))
        => (probabilities' = probabilities /\ evaluated' = evaluated
            /\ pc' = "trait_loop")

\* C2: every hypothesis that is evaluated and added has a have_trait that
\* agrees with every known observation; a trait subset disagreeing with any
\* known observation contributes no mass to any accumulator.
C2_EvidenceRespected == [] C2_State /\ [][C2_Step]_vars

\* A hypothesis is being evaluated for a population with an observed False
\* and an observed True, after some subset was discarded.
C2_Witness ==
    /\ pc = "gene_loop"
    /\ i_trait > 1
    /\ evaluated > 0
    /\ \E i \in names(people) : people[i].trait = "False"
    /\ \E i \in names(people) : people[i].trait = "True"

\* C3: when normalize meets a zero accumulator sum, the run ends with the
\* distinct error EmptyEvidenceSet, not with a division fault.
C3_ZeroSumReported ==
    /\ error # "ZeroDivisionError"
    /\ pc = "fault" => error = "EmptyEvidenceSet"

\* C4: for a malformed pedigree (one parent only, or a parent naming nobody)
\* no hypothesis is evaluated and no probability table is produced.
C4_MalformedRejected ==
    ~WellFormed(people) => (evaluated = 0 /\ pc # "done")

\* C5: a single founder without observation ends with the gene distribution
\* {0: 0.96, 1: 0.03, 2: 0.01} and the trait distribution
\* {True: 0.0329, False: 0.9671}.
C5_FounderPrior ==
    (/\ pc = "done"
     /\ Len(people) = 1
     /\ people[1].mother = None
     /\ people[1].father = None
     /\ people[1].trait = "None")
    => /\ RatEq(probabilities[1].gene[0], Rat(96, 100))
       /\ RatEq(probabilities[1].gene[1], Rat(3, 100))
       /\ RatEq(probabilities[1].gene[2], Rat(1, 100))
       /\ RatEq(probabilities[1].trait[TRUE],
                Rat(96 * 1 + 3 * 56 + 1 * 65, 100 * 100))
       /\ RatEq(probabilities[1].trait[FALSE],
                Rat(100 * 100 - (96 * 1 + 3 * 56 + 1 * 65), 100 * 100))

\* The run of the single unobserved founder is over.
C5_Witness ==
    /\ pc = "done"
    /\ Len(people) = 1
    /\ people[1].mother = None
    /\ people[1].father = None
    /\ people[1].trait = "None"
    /\ probabilities[1].gene[0].d # <<>>

\* C6: for an empty population the run raises nothing, goes on until it is
\* done, creates no person entry and performs no division.
C6_EmptyPopulation ==
    Len(people) = 0 =>
        /\ error = ""
        /\ pc # "fault"
        /\ divisions = 0
        /\ probabilities = <<>>
        /\ pc # "done" => ENABLED Next

\* The run over the empty population is over.
C6_Witness == Len(people) = 0 /\ pc = "done" /\ evaluated = 1

\* The gene counts a pair (one_gene, two_genes) assigns.
Assignment(pair) ==
    [person \in names(people) |->
        IF person \in pair[1] /\ person \in pair[2] THEN 3
        ELSE IF person \in pair[1] THEN 1
        ELSE IF person \in pair[2] THEN 2 ELSE 0]

\* C7: for each surviving have_trait the pairs (one_gene, two_genes) visited
\* are disjoint subsets of the population, no assignment of gene counts is
\* visited twice, and when the loops over the genes end every assignment
\* [population -> {0, 1, 2}] has been visited: 3^n pairs.
C7_GeneEnumeration ==
    /\ \A k \in 1..Len(visited) :
          /\ visited[k][1] \cap visited[k][2] = {}
          /\ visited[k][1] \subseteq names(people)
          /\ visited[k][2] \subseteq names(people)
          /\ \A j \in 1..(k - 1) :
                Assignment(visited[j]) # Assignment(visited[k])
    /\ (pc # "gene_loop" /\ evaluated > 0) =>
          /\ {Assignment(visited[k]) : k \in 1..Len(visited)}
                = [names(people) -> 0..2]
          /\ Len(visited) = 3 ^ Len(people)

\* The loops over the genes have ended for a population of MaxPeople.
C7_Witness ==
    /\ pc = "trait_loop"
    /\ Len(people) = MaxPeople
    /\ Len(visited) = 3 ^ MaxPeople

(***************************************************************************)
(* The product the joint probability is specified to be.                   *)
(***************************************************************************)
\* h(x) = m, 0.5, 1 - m for x = 0, 1, 2, and its complement 1 - h(x).
HN(x) == CASE x = 0 -> PROBS.mutation [] x = 1 -> 50 [] x = 2 -> Unit - PROBS.mutation
H(x) == Hundredths(HN(x))
NotH(x) == Hundredths(Unit - HN(x))

Transmission(g, gm, gf) ==
    CASE g = 0 -> DecMul(NotH(gm), NotH(gf))
      [] g = 1 -> DecAdd(DecMul(H(gm), NotH(gf)), DecMul(NotH(gm), H(gf)))
      [] g = 2 -> DecMul(H(gm), H(gf))

\* The copies x has under disjoint sets og (one copy) and tg (two copies).
Copies(x, og, tg) == Cardinality({x} \cap og) + 2 * Cardinality({x} \cap tg)

Factor(ppl, x, og, tg, ht) ==
    LET g == Copies(x, og, tg)
        pt == Hundredths(PROBS.trait[g][(x \in ht)])
    IN  IF ppl[x].mother = None /\ ppl[x].father = None
        THEN DecMul(Hundredths(PROBS.gene[g]), pt)
        ELSE DecMul(Transmission(g, Copies(ppl[x].mother, og, tg),
                                    Copies(ppl[x].father, og, tg)), pt)

RECURSIVE ProductOver(_, _, _, _, _)
ProductOver(S, ppl, og, tg, ht) ==
    IF S = {} THEN One
    ELSE LET x == CHOOSE y \in S : TRUE
         IN  DecMul(Factor(ppl, x, og, tg, ht),
                    ProductOver(S \ {x}, ppl, og, tg, ht))

\* The orders in which n persons can be visited.
Orders(n) == {f \in [1..n -> 1..n] : \A i, j \in 1..n : i # j => f[i] # f[j]}

\* C8: for every well-formed pedigree and every hypothesis evaluated,
\* joint_probability returns the product over the persons, each once, of
\* P(g) * P(t|g) for a founder and transmission(g | g_mother, g_father) *
\* P(t|g) for a person with both parents, in whatever order the persons are
\* visited.
C8_JointProduct ==
    (pc = "gene_loop" /\ WellFormed(people)) =>
        LET product == ProductOver(names(people), people, one_gene,
                                   two_genes, have_trait)
        IN  /\ DecEq(joint_probability(people, one_gene, two_genes,
                                       have_trait), product)
            /\ \A order \in Orders(Len(people)) :
                  DecEq(JointLoop(order, people, one_gene, two_genes,
                                  have_trait, One), product)

\* A hypothesis is evaluated in which a child has one copy, the mother two
\* and the father none, and the child precedes a parent in the dictionary.
C8_Witness ==
    /\ pc = "gene_loop"
    /\ WellFormed(people)
    /\ \E c \in names(people) :
          /\ people[c].mother \in names(people)
          /\ people[c].father \in names(people)
          /\ people[c].mother # people[c].father
          /\ c < people[c].mother
          /\ getGene(c, one_gene, two_genes) = 1
          /\ getGene(people[c].mother, one_gene, two_genes) = 2
          /\ getGene(people[c].father, one_gene, two_genes) = 0
          /\ c \in have_trait

\* C9, on every state of the enumeration: for every person the gene buckets
\* and the trait buckets both sum to the sum of the joint probabilities
\* added so far.
C9_Sums ==
    pc \in {"trait_loop", "gene_loop"} =>
        \A person \in names(people) :
            /\ DecEq(GeneTotal(probabilities[person]), mass)
            /\ DecEq(TraitTotal(probabilities[person]), mass)

\* C9, on every update: p is added to exactly one gene bucket and exactly
\* one trait bucket of every person; the other buckets and the population
\* stay as they are.
C9_Update ==
    pc = "gene_loop" =>
        LET p == joint_probability(people, one_gene, two_genes, have_trait)
        IN  /\ people' = people
            /\ DOMAIN probabilities' = DOMAIN probabilities
            /\ DecEq(mass', DecAdd(mass, p))
            /\ \A person \in names(people) :
                  LET old == probabilities[person]
                      new == probabilities'[person]
                  IN  /\ \E g \in 0..2 :
                            /\ DecEq(new.gene[g], DecAdd(old.gene[g], p))
                            /\ \A g2 \in (0..2) \ {g} :
                                  new.gene[g2] = old.gene[g2]
                      /\ \E t \in BOOLEAN :
                            /\ DecEq(new.trait[t], DecAdd(old.trait[t], p))
                            /\ new.trait[~t] = old.trait[~t]

\* C9: after any number of updates the gene buckets and the trait buckets of
\* every person sum to the same value, the sum of the joint probabilities
\* processed so far; each update adds p to exactly one gene bucket and one
\* trait bucket of every person and leaves the rest unchanged.
C9_Accumulators == [] C9_Sums /\ [][C9_Update]_vars

\* Several hypotheses have been added for a population of MaxPeople.
C9_Witness ==
    /\ pc = "gene_loop"
    /\ Len(people) = MaxPeople
    /\ evaluated > 3
    /\ ~DecIsZero(mass)
    /\ ~DecIsZero(probabilities[1].trait[FALSE])

\* C10: for every non-empty population and every observation, some trait
\* subset survives the evidence filter, every evaluated hypothesis has a
\* strictly positive joint probability, every accumulator sum is strictly
\* positive when normalize runs, and normalize never divides by zero.
C10_NoZeroSum ==
    Len(people) > 0 =>
        /\ \E i \in 1..Len(PS) : Agrees(people, PS[i])
        /\ pc = "gene_loop" =>
              ~DecIsZero(joint_probability(people, one_gene, two_genes,
                                           have_trait))
        /\ AtNormalize =>
              /\ evaluated > 0
              /\ \A person \in names(people) :
                    /\ ~DecIsZero(GeneTotal(probabilities[person]))
                    /\ ~DecIsZero(TraitTotal(probabilities[person]))
        /\ pc # "fault"
        /\ error = ""

\* normalize is about to run for a population all of whose traits are
\* observed, all of them True.
C10_Witness ==
    /\ AtNormalize
    /\ Len(people) = MaxPeople
    /\ \A i \in names(people) : people[i].trait = "True"

=============================================================================
